---- MODULE Spec2Model ----
(***************************************************************************)
(* The conversation session of backend/app.py (conversation_ws): one       *)
(* coroutine per WebSocket that receives JSON messages, answers pings and  *)
(* runs the transcribe -> generate -> parse emotion -> synthesize ->       *)
(* envelope pipeline for every audio_data message.                         *)
(*                                                                         *)
(* Texts are sequences of one-character strings, so that strip(), join()   *)
(* and the emotion regular expression are computed, not assumed.           *)
(***************************************************************************)
EXTENDS Integers, Sequences, FiniteSets, TLC

\* ------------------------------------------------------------------ bounds
\* Messages the client sends over the life of one connection.
MaxMsgs == 2
\* Inbound messages buffered by the transport and not yet received.
MaxInbox == 2
\* Samples of a clip handed to the envelope extractor on its own.
MaxSamples == 6

\* --------------------------------------------------------- program constants
\* extract_amplitude_envelope's default bucket_ms, also sent as amplitudeBucketMs.
DefaultBucketMs == 50

\* ------------------------------------------------------------------- texts
Whitespace == {" "}

RECURSIVE LStrip(_)
LStrip(t) ==
  IF t # <<>> /\ Head(t) \in Whitespace THEN LStrip(Tail(t)) ELSE t

RECURSIVE RStrip(_)
RStrip(t) ==
  IF t # <<>> /\ t[Len(t)] \in Whitespace
  THEN RStrip(SubSeq(t, 1, Len(t) - 1))
  ELSE t

\* str.strip()
Strip(t) == RStrip(LStrip(t))

\* " ".join(texts)
RECURSIVE Join(_)
Join(texts) ==
  IF texts = <<>> THEN <<>>
  ELSE IF Len(texts) = 1 THEN texts[1]
  ELSE texts[1] \o <<" ">> \o Join(Tail(texts))

\* --------------------------------------------------------- stt.transcribe
\* The segment texts the recogniser returns for one utterance in this model
\* (its segments start with a blank): nothing, silence, one word, two words.
SegmentLists ==
  { <<>>,
    << <<" ">> >>,
    << <<" ">>, <<" ">> >>,
    << <<" ", "a">> >>,
    << <<" ", "a">>, <<" ">> >>,
    << <<" ", "a">>, <<" ", "a">> >> }

\* stt.transcribe with the join result returned as it is (no strip()).
transcribe_nostrip(segments) == Join(segments)

\* stt.transcribe: " ".join(seg.text for seg in segments).strip()
transcribe(segments) == Strip(Join(segments))

\* ---------------------------------------------------------- EMOTION_PATTERN
EmotionWords ==
  { <<"h","a","p","p","y">>, <<"s","a","d">>, <<"a","n","g","r","y">>,
    <<"s","u","r","p","r","i","s","e","d">>,
    <<"c","o","n","c","e","r","n","e","d">>,
    <<"n","e","u","t","r","a","l">> }

UpperAlpha ==
  <<"A","B","C","D","E","F","G","H","I","J","K","L","M",
    "N","O","P","Q","R","S","T","U","V","W","X","Y","Z">>
LowerAlpha ==
  <<"a","b","c","d","e","f","g","h","i","j","k","l","m",
    "n","o","p","q","r","s","t","u","v","w","x","y","z">>

\* Case folding of one character, as re.IGNORECASE compares ASCII letters.
LowerChar(c) ==
  IF \E i \in 1..26 : UpperAlpha[i] = c
  THEN LowerAlpha[CHOOSE i \in 1..26 : UpperAlpha[i] = c]
  ELSE c

LowerText(t) == [i \in 1..Len(t) |-> LowerChar(t[i])]

\* Does word w occur in t right after position p, compared case-insensitively?
WordAt(t, p, w) ==
  /\ p + Len(w) <= Len(t)
  /\ LowerText(SubSeq(t, p + 1, p + Len(w))) = w

\* A pattern without the trailing \s*.
SkipSpaces_none(t, p) == p

\* Position after the run of whitespace that starts after position p (\s*).
RECURSIVE SkipSpaces(_, _)
SkipSpaces(t, p) ==
  IF p < Len(t) /\ t[p + 1] \in Whitespace THEN SkipSpaces(t, p + 1) ELSE p

\* EMOTION_PATTERN.match(t): ^\[?(happy|...|neutral)\]?\s*, IGNORECASE.
\* The result is [matched, group1, end]; group1 is the word as written in t.
EmotionMatch(t) ==
  LET p0 == IF t # <<>> /\ t[1] = "[" THEN 1 ELSE 0
      ws == {w \in EmotionWords : WordAt(t, p0, w)}
  IN  IF ws = {}
      THEN [matched |-> FALSE, group1 |-> <<>>, end |-> 0]
      ELSE LET w  == CHOOSE x \in ws : TRUE
               p1 == p0 + Len(w)
               p2 == IF p1 < Len(t) /\ t[p1 + 1] = "]" THEN p1 + 1 ELSE p1
           IN  [matched |-> TRUE,
                group1  |-> SubSeq(t, p0 + 1, p1),
                end     |-> SkipSpaces(t, p2)]

Neutral == <<"n","e","u","t","r","a","l">>

\* A parser that goes on removing markers as long as the text begins with one.
RECURSIVE ParseEmotion_all(_)
ParseEmotion_all(reply) ==
  LET m == EmotionMatch(reply)
  IN  IF m.matched
      THEN [emotion |-> m.group1,
            text    |-> ParseEmotion_all(SubSeq(reply, m.end + 1, Len(reply))).text]
      ELSE [emotion |-> Neutral, text |-> reply]

\* app.py 156-160: the (emotion, response_text) pair after the emotion tag
\* has been parsed off the raw reply.
ParseEmotion(reply) ==
  LET m == EmotionMatch(reply)
  IN  IF m.matched
      THEN [emotion |-> m.group1,
            text    |-> SubSeq(reply, m.end + 1, Len(reply))]
      ELSE [emotion |-> Neutral, text |-> reply]

\* The replies the language model returns in this model.
Replies ==
  { <<"[","s","a","d","]"," ","o","k">>,
    <<"S","a","d"," ","o","k">>,
    <<"o","k">> }

\* ------------------------------------------- extract_amplitude_envelope
\* A decoded clip: what AudioSegment.from_mp3 yields for the synthesized
\* bytes.  decodable = FALSE stands for bytes from_mp3 cannot decode.
Clips ==
  { [bytes |-> "tone",   decodable |-> TRUE,  frame_rate |-> 40, channels |-> 1,
     samples |-> <<3, 3, 3>>],
    [bytes |-> "stereo", decodable |-> TRUE,  frame_rate |-> 40, channels |-> 2,
     samples |-> <<0, 2, 0, 2, 4, 2>>],
    [bytes |-> "junk",   decodable |-> FALSE, frame_rate |-> 40, channels |-> 1,
     samples |-> <<>>] }

\* No channel reduction: the interleaved array as it is.
EveryOther_all(s) == s

\* samples[::2]
EveryOther(s) == [i \in 1..((Len(s) + 1) \div 2) |-> s[2 * i - 1]]

RECURSIVE SumSq(_)
SumSq(s) == IF s = <<>> THEN 0 ELSE Head(s) * Head(s) + SumSq(Tail(s))

\* An amplitude is kept as the fraction num/den of its square, so
\* sqrt(mean(chunk ** 2)) is [num |-> sum of squares, den |-> len(chunk)].
Rms(chunk) == [num |-> SumSq(chunk), den |-> Len(chunk)]

AmpLeq(a, b) == a.num * b.den <= b.num * a.den

\* Normalising by the first bucket instead of the loudest.
MaxAmp_first(amps) == amps[1]

\* max(amplitudes)
MaxAmp(amps) ==
  CHOOSE m \in {amps[i] : i \in 1..Len(amps)} :
    \A i \in 1..Len(amps) : AmpLeq(amps[i], m)

\* a / max_amp
AmpDiv(a, m) == [num |-> a.num * m.den, den |-> a.den * m.num]

\* samples[i:i + bucket_size]: a slice stops at the end of the array.
Slice(s, i, size) ==
  SubSeq(s, i + 1, IF i + size < Len(s) THEN i + size ELSE Len(s))

\* The chunks samples[i:i + bucket_size] for i in range(i, len, bucket_size).
RECURSIVE ChunksFrom(_, _, _)
ChunksFrom(s, i, size) ==
  IF i >= Len(s) THEN <<>>
  ELSE <<Slice(s, i, size)>> \o ChunksFrom(s, i + size, size)

\* The chunks of `for i in range(0, len(samples), bucket_size)`.
Chunks(s, size) == ChunksFrom(s, 0, size)

\* extract_amplitude_envelope(mp3_bytes, bucket_ms): [ok, amplitudes].
\* ok = FALSE when the call raises (undecodable bytes, or a bucket size of 0,
\* for which range() raises ValueError).
extract_amplitude_envelope(clip, bucket_ms) ==
  LET samples     == IF clip.channels = 2 THEN EveryOther(clip.samples)
                     ELSE clip.samples
      bucket_size == (clip.frame_rate * bucket_ms) \div 1000
  IN  IF ~clip.decodable \/ bucket_size = 0
      THEN [ok |-> FALSE, amplitudes |-> <<>>]
      ELSE LET chunks == Chunks(samples, bucket_size)
               raw    == [k \in 1..Len(chunks) |-> Rms(chunks[k])]
           IN  IF raw # <<>> /\ MaxAmp(raw).num > 0
               THEN [ok |-> TRUE,
                     amplitudes |->
                       [k \in 1..Len(raw) |-> AmpDiv(raw[k], MaxAmp(raw))]]
               ELSE [ok |-> TRUE, amplitudes |-> raw]

\* ------------------------------------------------------ protocol messages
\* Inbound frames.  json is "invalid" when json.loads raises, "nonobject"
\* when it yields a value without .get (a list, a number, null).
BadJson   == [json |-> "invalid",   type |-> "none", audio |-> "none", voiceId |-> "none"]
NonObject == [json |-> "nonobject", type |-> "none", audio |-> "none", voiceId |-> "none"]
Ping      == [json |-> "object",    type |-> "ping", audio |-> "none", voiceId |-> "none"]
Other     == [json |-> "object",    type |-> "start_listening", audio |-> "none",
              voiceId |-> "none"]
StopListening == [json |-> "object", type |-> "stop_listening", audio |-> "none",
                  voiceId |-> "none"]
Unknown   == [json |-> "object",    type |-> "dance", audio |-> "none",
              voiceId |-> "none"]

\* audio_data frames.  voiceId is "none" (no such key), "empty" ("") or a
\* voice; audio is "none" (no such key), "empty" (""), "badb64"
\* (b64decode raises), "undecodable" (AudioSegment.from_file raises) or "ok".
AudioData(a, v) == [json |-> "object", type |-> "audio_data", audio |-> a, voiceId |-> v]

ClientMsgs ==
  { BadJson, NonObject, Ping, Other, StopListening, Unknown,
    AudioData("none", "none"), AudioData("empty", "none"),
    AudioData("badb64", "none"), AudioData("undecodable", "none"),
    AudioData("ok", "none"), AudioData("ok", "empty"), AudioData("ok", "v1") }

\* Outbound messages.
Pong               == [type |-> "pong"]
Processing         == [type |-> "processing"]
ErrorMsg(m)        == [type |-> "error", message |-> m]
TranscriptMsg(t)   == [type |-> "transcript", text |-> t]
AudioMsg(c, e, am) ==
  [type |-> "audio", audio |-> c.bytes, emotion |-> e, amplitudes |-> am,
   amplitudeBucketMs |-> DefaultBucketMs]

\* Events of the current pipeline run, in the order they happen.
CallEv(s)  == [ev |-> "call",  stage |-> s]
RetEv(s)   == [ev |-> "ret",   stage |-> s]
RaiseEv(s) == [ev |-> "raise", stage |-> s]
SendEv(m)  == [ev |-> "send",  msg |-> m]

\* ------------------------------------------------------------------ state
VARIABLES
  transport,      \* "open" or "closed": the WebSocket as the client left it
  inbox,          \* frames the client sent that receive_text has not returned yet
  inboxMid,       \* per frame of inbox: did it arrive while a run was in flight
  arrivedMid,     \* did the frame now in `data` arrive while a run was in flight
  nsent,          \* frames the client has sent so far
  pc,             \* where the coroutine of conversation_ws stands
  data,           \* the local `data` (the parsed frame)
  voice_id,       \* the local `voice_id`
  tmp_path,       \* the local `tmp_path`
  user_text,      \* the local `user_text`
  response_text,  \* the local `response_text`
  emotion,        \* the local `emotion`
  audio,          \* the local `audio`
  sent,           \* the messages delivered to the client, in order
  tmpFiles,       \* the temporary WAV files that exist
  created,        \* temporary files created so far (names are 1..created)
  trace,          \* events of the current run (stage calls, returns, sends)
  failedSends,    \* send_json calls made on the closed transport
  closedInFlight, \* the transport closed while a run was in flight
  peer_inbox,     \* frames a second connection sent that its handler has not taken
  peer_sent,      \* the messages delivered to the second connection
  call_state,     \* calls made outside the session: where each of them stands
  call_arg,       \* what they work on: the argument, or the module-level state
  call_result     \* what they returned

vars ==
  << transport, inbox, inboxMid, arrivedMid, nsent, pc, data, voice_id, tmp_path, user_text,
     response_text, emotion, audio, sent, tmpFiles, created, trace, failedSends,
     closedInFlight, peer_inbox, peer_sent, call_state, call_arg, call_result >>

\* What the handler of one connection never touches: the second connection
\* and the functions called on their own.
others == << peer_inbox, peer_sent, call_state, call_arg, call_result >>

locals == << data, voice_id, tmp_path, user_text, response_text, emotion, audio >>

NoClip == [bytes |-> "", decodable |-> FALSE, frame_rate |-> 0, channels |-> 1,
           samples |-> <<>>]

\* The coroutine is between the `processing` message and the end of the run.
InFlight ==
  pc \in {"normalize", "normalizing", "transcribe", "transcript_sent", "generate",
          "synthesize", "envelope"}

SessionInit ==
  /\ transport = "open"
  /\ inbox = <<>>
  /\ inboxMid = <<>>
  /\ arrivedMid = FALSE
  /\ nsent = 0
  /\ pc = "recv"
  /\ data = BadJson
  /\ voice_id = "none"
  /\ tmp_path = 0
  /\ user_text = <<>>
  /\ response_text = <<>>
  /\ emotion = Neutral
  /\ audio = NoClip
  /\ sent = <<>>
  /\ tmpFiles = {}
  /\ created = 0
  /\ trace = <<>>
  /\ failedSends = 0
  /\ closedInFlight = FALSE
  /\ peer_inbox = <<>>
  /\ peer_sent = <<>>

Init ==
  /\ SessionInit
  /\ call_state = "none"
  /\ call_arg = <<>>
  /\ call_result = <<>>

\* ------------------------------------------------------------ the client
\* The client sends one more frame; the transport queues it.
ClientSend(m) ==
  /\ transport = "open"
  /\ nsent < MaxMsgs
  /\ Len(inbox) < MaxInbox
  /\ inbox' = Append(inbox, m)
  /\ inboxMid' = Append(inboxMid, InFlight)
  /\ nsent' = nsent + 1
  /\ UNCHANGED << transport, arrivedMid, pc, locals, sent, tmpFiles, created,
                  trace, failedSends, closedInFlight >>
  /\ UNCHANGED others

\* The client goes away: the channel breaks.
ClientClose ==
  /\ transport = "open"
  /\ transport' = "closed"
  /\ closedInFlight' = InFlight
  /\ UNCHANGED << inbox, inboxMid, arrivedMid, nsent, pc, locals, sent, tmpFiles, created,
                  trace, failedSends >>
  /\ UNCHANGED others

\* ------------------------------------------------- pieces of the handler
\* What send_json raises once the transport is closed: the server stack
\* reports it as WebSocketDisconnect or as another exception.
SendErrors == {"WebSocketDisconnect", "RuntimeError"}

\* send_json calls made on the closed transport when one send raised exc:
\* WebSocketDisconnect breaks at once (188-190); any other exception reaches
\* the handler, whose own send_json fails as well (191-198).
AttemptsOnClosed(exc) == IF exc = "WebSocketDisconnect" THEN 1 ELSE 2

\* os.unlink(tmp_path)
Unlink(files, f) == files \ {f}

\* A check for the missing key only (`audio_b64 is None`).
NoAudio_missing(d) == d.audio = "none"

\* `not audio_b64`
NoAudio(d) == d.audio \in {"none", "empty"}

\* A pipeline without the empty-transcript check.
EmptyTranscript_never(t) == FALSE

\* `not user_text.strip()`
EmptyTranscript(t) == Strip(t) = <<>>

\* The handler of `except Exception` leaving the loop after its message.
AfterError_break == "closed"

\* Where the coroutine goes once the handler of `except Exception` has sent
\* its error message: the while loop goes round.
AfterError == "recv"

\* A send_json(m) whose message never reaches the client while the loop goes on.
SendAndLoop_drops(m) ==
  /\ sent' = sent
  /\ pc' = "recv"
  /\ failedSends' = failedSends

\* A send_json(m) that is the last thing the handler does before `continue`
\* or the end of the loop body.
SendAndLoop(m) ==
  \/ /\ transport = "open"
     /\ sent' = Append(sent, m)
     /\ pc' = "recv"
     /\ failedSends' = failedSends
  \/ /\ transport = "closed"
     /\ \E exc \in SendErrors : failedSends' = failedSends + AttemptsOnClosed(exc)
     /\ sent' = sent
     /\ pc' = "closed"

\* A handler of `except Exception` that swallows the exception.
HandleException_silent(text) ==
  /\ sent' = sent
  /\ pc' = AfterError
  /\ failedSends' = failedSends

\* `except Exception as e` (191-198): send error(str(e)); break if that
\* send fails.
HandleException(text) ==
  \/ /\ transport = "open"
     /\ sent' = Append(sent, ErrorMsg(text))
     /\ pc' = AfterError
     /\ failedSends' = failedSends
  \/ /\ transport = "closed"
     /\ sent' = sent
     /\ pc' = "closed"
     /\ failedSends' = failedSends + 1

\* The events a state change added to the run's trace.
Logged(evs) ==
  trace' = trace \o evs
           \o (IF Len(sent') > Len(sent) THEN <<SendEv(sent'[Len(sent')])>> ELSE <<>>)

\* A receive that also runs while the pipeline is awaited.
Pop_anytime ==
  /\ pc # "closed"
  /\ inbox # <<>>
  /\ inbox' = Tail(inbox)
  /\ inboxMid' = Tail(inboxMid)
  /\ arrivedMid' = Head(inboxMid)

\* The head of the inbox is taken by receive_text.
Pop ==
  /\ pc = "recv"
  /\ inbox # <<>>
  /\ inbox' = Tail(inbox)
  /\ inboxMid' = Tail(inboxMid)
  /\ arrivedMid' = Head(inboxMid)

\* ----------------------------------------------------- the receive loop
\* receive_text raises WebSocketDisconnect (94, 188-190).
RecvDisconnect ==
  /\ pc = "recv"
  /\ inbox = <<>>
  /\ transport = "closed"
  /\ pc' = "closed"
  /\ UNCHANGED << transport, inbox, inboxMid, arrivedMid, nsent, locals, sent, tmpFiles,
                  created, trace, failedSends, closedInFlight >>
  /\ UNCHANGED others

\* Unparseable JSON ending the loop.
RecvBadJson_break ==
  /\ Pop
  /\ Head(inbox).json = "invalid"
  /\ pc' = "closed"
  /\ UNCHANGED << transport, nsent, locals, sent, tmpFiles, created, trace,
                  failedSends, closedInFlight >>
  /\ UNCHANGED others

\* json.loads raises: continue (95-98).
RecvBadJson ==
  /\ Pop
  /\ Head(inbox).json = "invalid"
  /\ UNCHANGED << transport, nsent, pc, locals, sent, tmpFiles, created, trace,
                  failedSends, closedInFlight >>
  /\ UNCHANGED others

\* data.get raises AttributeError (99), handled at 191-198.
RecvNonObject ==
  /\ Pop
  /\ Head(inbox).json = "nonobject"
  /\ data' = Head(inbox)
  /\ HandleException("AttributeError")
  /\ UNCHANGED << transport, nsent, voice_id, tmp_path, user_text, response_text,
                  emotion, audio, tmpFiles, created, trace, closedInFlight >>
  /\ UNCHANGED others

\* msg_type == "ping" (101-103).
RecvPing ==
  /\ Pop
  /\ Head(inbox).json = "object"
  /\ Head(inbox).type = "ping"
  /\ data' = Head(inbox)
  /\ SendAndLoop(Pong)
  /\ UNCHANGED << transport, nsent, voice_id, tmp_path, user_text, response_text,
                  emotion, audio, tmpFiles, created, trace, closedInFlight >>
  /\ UNCHANGED others

\* A dispatch that answers a type it does not know with an error message.
RecvOther_error ==
  /\ Pop
  /\ Head(inbox).json = "object"
  /\ Head(inbox).type \notin {"ping", "audio_data"}
  /\ data' = Head(inbox)
  /\ SendAndLoop(ErrorMsg("unknown message type"))
  /\ UNCHANGED << transport, nsent, voice_id, tmp_path, user_text, response_text,
                  emotion, audio, tmpFiles, created, trace, closedInFlight >>
  /\ UNCHANGED others

\* Any other type: no branch is taken and the loop goes round (107).
RecvOther ==
  /\ Pop
  /\ Head(inbox).json = "object"
  /\ Head(inbox).type \notin {"ping", "audio_data"}
  /\ data' = Head(inbox)
  /\ UNCHANGED << transport, nsent, pc, voice_id, tmp_path, user_text,
                  response_text, emotion, audio, sent, tmpFiles, created, trace,
                  failedSends, closedInFlight >>
  /\ UNCHANGED others

\* msg_type == "audio_data" (107-114): no payload gives an error, a payload
\* gives `processing` and starts the run.
RecvAudioData ==
  /\ Pop
  /\ Head(inbox).json = "object"
  /\ Head(inbox).type = "audio_data"
  /\ data' = Head(inbox)
  /\ IF NoAudio(Head(inbox))
     THEN /\ SendAndLoop(ErrorMsg("no audio data"))
          /\ trace' = trace
     ELSE \/ /\ transport = "open"
             /\ sent' = Append(sent, Processing)
             /\ pc' = "normalize"
             /\ failedSends' = failedSends
             /\ trace' = <<SendEv(Processing)>>
          \/ /\ transport = "closed"
             /\ \E exc \in SendErrors :
                  failedSends' = failedSends + AttemptsOnClosed(exc)
             /\ sent' = sent
             /\ pc' = "closed"
             /\ trace' = trace
  /\ UNCHANGED << transport, nsent, voice_id, tmp_path, user_text, response_text,
                  emotion, audio, tmpFiles, created, closedInFlight >>
  /\ UNCHANGED others

\* ------------------------------------------------------- the pipeline run
\* A binding that keeps the voice of the previous run when the message has none.
BindVoice_sticky(d) == IF d.voiceId = "none" THEN voice_id ELSE d.voiceId

\* voice_id = data.get("voiceId") (118): "none" is None, "empty" is "".
BindVoice(d) == d.voiceId

\* config.ELEVENLABS_VOICE_ID
DefaultVoice == "default"

\* tts.synthesize: voice_id or config.ELEVENLABS_VOICE_ID
SynthVoice(v) == IF v \in {"none", "empty"} THEN DefaultVoice ELSE v

\* 116-138: decode the payload, convert it, write the temporary WAV file and
\* hand stt.transcribe to the executor.  The file exists from line 126 on;
\* tmp_path is bound at 128 and the try block starts at 133.
Normalize ==
  /\ pc \in {"normalize", "normalizing"}
  /\ \/ /\ data.audio = "badb64"
        /\ HandleException("binascii.Error")
        /\ Logged(<<RaiseEv("normalize")>>)
        /\ UNCHANGED << voice_id, tmp_path, tmpFiles, created >>
     \/ /\ data.audio = "undecodable"
        /\ voice_id' = BindVoice(data)
        /\ HandleException("CouldntDecodeError")
        /\ Logged(<<RaiseEv("normalize")>>)
        /\ UNCHANGED << tmp_path, tmpFiles, created >>
     \/ /\ data.audio = "ok"
        /\ voice_id' = BindVoice(data)
        /\ created' = created + 1
        /\ tmpFiles' = tmpFiles \cup {created + 1}
        /\ \/ /\ tmp_path' = tmp_path
              /\ HandleException("export failed")
              /\ Logged(<<RaiseEv("normalize")>>)
           \/ /\ tmp_path' = created + 1
              /\ pc' = "transcribe"
              /\ UNCHANGED << sent, failedSends >>
              /\ Logged(<<CallEv("transcribe")>>)
  /\ UNCHANGED << transport, inbox, inboxMid, arrivedMid, nsent, data, user_text,
                  response_text, emotion, audio, closedInFlight >>
  /\ UNCHANGED others

\* str(e) of the exception a stage raises.
FailureText(stage) ==
  CASE stage = "transcribe" -> "stt failed"
    [] stage = "generate"   -> "llm failed"
    [] stage = "synthesize" -> "tts failed"
    [] stage = "envelope"   -> "envelope failed"

\* A stage that raised is submitted to the executor once more.
StageRaises_retry(stage) ==
  /\ tmpFiles' = tmpFiles
  /\ sent' = sent
  /\ pc' = pc
  /\ failedSends' = failedSends
  /\ trace' = trace \o <<RaiseEv(stage), CallEv(stage)>>

\* A stage raised inside the try block: finally unlinks (185-186), then the
\* handler of `except Exception` runs.
StageRaises(stage) ==
  /\ tmpFiles' = Unlink(tmpFiles, tmp_path)
  /\ HandleException(FailureText(stage))
  /\ Logged(<<RaiseEv(stage)>>)

\* A send inside the try block whose message never reaches the client.
SendInTry_drops(m, next) ==
  /\ sent' = sent
  /\ pc' = next
  /\ failedSends' = failedSends
  /\ tmpFiles' = tmpFiles

\* A send_json(m) inside the try block after which the run goes on at `next`
\* (an in-flight position).  When it raises, finally unlinks.
SendInTry(m, next) ==
  \/ /\ transport = "open"
     /\ sent' = Append(sent, m)
     /\ pc' = next
     /\ failedSends' = failedSends
     /\ tmpFiles' = tmpFiles
  \/ /\ transport = "closed"
     /\ \E exc \in SendErrors : failedSends' = failedSends + AttemptsOnClosed(exc)
     /\ sent' = sent
     /\ pc' = "closed"
     /\ tmpFiles' = Unlink(tmpFiles, tmp_path)

\* A last send of the try block that is followed by one more error message.
SendEndsTry_twice(m) ==
  /\ sent' = sent \o <<m, ErrorMsg("late")>>
  /\ pc' = "recv"
  /\ failedSends' = failedSends
  /\ tmpFiles' = Unlink(tmpFiles, tmp_path)

\* A send_json(m) that ends the try block (`continue` at 145, or the end of
\* the block at 184): finally unlinks whether the send raised or not.
SendEndsTry(m) ==
  /\ SendAndLoop(m)
  /\ tmpFiles' = Unlink(tmpFiles, tmp_path)

\* 138-140: stt.transcribe returns or raises; the transcript is sent.
TranscribeDone ==
  /\ pc = "transcribe"
  /\ \/ /\ StageRaises("transcribe")
        /\ user_text' = user_text
     \/ \E segs \in SegmentLists :
          /\ user_text' = transcribe(segs)
          /\ SendInTry(TranscriptMsg(user_text'), "transcript_sent")
          /\ Logged(<<RetEv("transcribe")>>)
  /\ UNCHANGED << transport, inbox, inboxMid, arrivedMid, nsent, data, voice_id, tmp_path,
                  response_text, emotion, audio, created, closedInFlight >>
  /\ UNCHANGED others

\* 142-152: the empty-transcript short-circuit, or llm.generate goes to the
\* executor.
AfterTranscript ==
  /\ pc = "transcript_sent"
  /\ IF EmptyTranscript(user_text)
     THEN /\ SendEndsTry(ErrorMsg("could not understand audio"))
          /\ Logged(<<>>)
     ELSE /\ pc' = "generate"
          /\ UNCHANGED << sent, failedSends, tmpFiles >>
          /\ Logged(<<CallEv("generate")>>)
  /\ UNCHANGED << transport, inbox, inboxMid, arrivedMid, nsent, locals, created,
                  closedInFlight >>
  /\ UNCHANGED others

\* 149-166: llm.generate returns or raises; the emotion tag is parsed off the
\* reply and tts.synthesize goes to the executor.
GenerateDone ==
  /\ pc = "generate"
  /\ \/ /\ StageRaises("generate")
        /\ UNCHANGED << response_text, emotion >>
     \/ \E reply \in Replies :
          /\ emotion' = ParseEmotion(reply).emotion
          /\ response_text' = ParseEmotion(reply).text
          /\ pc' = "synthesize"
          /\ UNCHANGED << sent, failedSends, tmpFiles >>
          /\ Logged(<<RetEv("generate"), CallEv("parse"), RetEv("parse"),
                      CallEv("synthesize")>>)
  /\ UNCHANGED << transport, inbox, inboxMid, arrivedMid, nsent, data, voice_id, tmp_path,
                  user_text, audio, created, closedInFlight >>
  /\ UNCHANGED others

\* 164-173: tts.synthesize returns or raises; extract_amplitude_envelope goes
\* to the executor.
SynthesizeDone ==
  /\ pc = "synthesize"
  /\ \/ /\ StageRaises("synthesize")
        /\ audio' = audio
     \/ \E clip \in Clips :
          /\ audio' = clip @@ [voice |-> SynthVoice(voice_id)]
          /\ pc' = "envelope"
          /\ UNCHANGED << sent, failedSends, tmpFiles >>
          /\ Logged(<<RetEv("synthesize"), CallEv("envelope")>>)
  /\ UNCHANGED << transport, inbox, inboxMid, arrivedMid, nsent, data, voice_id, tmp_path,
                  user_text, response_text, emotion, created, closedInFlight >>
  /\ UNCHANGED others

\* 171-186: extract_amplitude_envelope returns or raises; the audio message
\* is sent and the temporary file is unlinked.
EnvelopeDone ==
  /\ pc = "envelope"
  /\ LET r == extract_amplitude_envelope(audio, DefaultBucketMs)
     IN  IF r.ok
         THEN /\ SendEndsTry(AudioMsg(audio, emotion, r.amplitudes))
              /\ Logged(<<RetEv("envelope")>>)
         ELSE StageRaises("envelope")
  /\ UNCHANGED << transport, inbox, inboxMid, arrivedMid, nsent, locals, created,
                  closedInFlight >>
  /\ UNCHANGED others

\* ------------------------------------------- the emotion parser on its own
UpperChar(c) ==
  IF \E i \in 1..26 : LowerAlpha[i] = c
  THEN UpperAlpha[CHOOSE i \in 1..26 : LowerAlpha[i] = c]
  ELSE c

\* A vocabulary word as a reply may spell it: lower case, capitalised, capitals.
CaseForms(w) ==
  { w, <<UpperChar(w[1])>> \o Tail(w), [i \in 1..Len(w) |-> UpperChar(w[i])] }

\* Markers: a word, bare or with either or both brackets.
Markers ==
  { open \o cw \o close :
      open \in {<<>>, <<"[">>},
      cw \in UNION {CaseForms(w) : w \in EmotionWords},
      close \in {<<>>, <<"]">>} }

Gaps == { <<>>, <<" ">>, <<" ", " ">> }

\* What follows the marker: nothing, plain text, text that holds a second
\* marker later, text that begins with a second marker, text that goes on
\* like a word.
Rests ==
  { <<>>, <<"o","k">>, <<"o","k"," ","[","s","a","d","]">>,
    <<"[","s","a","d","]"," ","o","k">>, <<"l","y"," ","o","k">> }

\* What precedes a marker that is not at position 0.
Leads == { <<" ">>, <<"o","k"," ">> }

\* The raw replies the parser is called on.
ParseInputs ==
  LET marked == { m \o g \o r : m \in Markers, g \in Gaps, r \in Rests }
  IN  marked \cup { l \o t : l \in Leads, t \in marked } \cup Rests

InitParse ==
  /\ SessionInit
  /\ call_state = "ready"
  /\ call_arg \in ParseInputs
  /\ call_result = <<>>

\* app.py 155-160 applied to one raw reply.
ParseCall ==
  /\ call_state = "ready"
  /\ call_result' = ParseEmotion(call_arg)
  /\ call_state' = "done"
  /\ UNCHANGED << transport, inbox, inboxMid, arrivedMid, nsent, pc, locals, sent,
                  tmpFiles, created, trace, failedSends, closedInFlight,
                  peer_inbox, peer_sent, call_arg >>

NextParse == ParseCall

SpecParse == InitParse /\ [][NextParse]_vars

\* -------------------------------------- the envelope extractor on its own
\* Sample values (signed PCM), frame rates and bucket lengths in this model;
\* frame_rate * bucket_ms / 1000 ranges over 0.25 .. 3.
SampleValues == {-4, 0, 3}
FrameRates   == {10, 20, 40, 60}
BucketMs     == {25, DefaultBucketMs}

SeqsUpTo(S, n) == UNION { [1..k -> S] : k \in 0..n }

\* Decoded clips: a stereo clip holds its samples interleaved, so an even
\* number of them.
EnvelopeClips ==
  LET all == [bytes : {"pcm"}, decodable : {TRUE}, frame_rate : FrameRates,
              channels : {1, 2}, samples : SeqsUpTo(SampleValues, MaxSamples)]
  IN  { c \in all : c.channels = 2 => Len(c.samples) % 2 = 0 }

InitEnvelope ==
  /\ SessionInit
  /\ call_state = "ready"
  /\ call_arg \in [clip : EnvelopeClips, bucket_ms : BucketMs]
  /\ call_result = <<>>

\* extract_amplitude_envelope applied to one clip.
EnvelopeCall ==
  /\ call_state = "ready"
  /\ call_result' = extract_amplitude_envelope(call_arg.clip, call_arg.bucket_ms)
  /\ call_state' = "done"
  /\ UNCHANGED << transport, inbox, inboxMid, arrivedMid, nsent, pc, locals, sent,
                  tmpFiles, created, trace, failedSends, closedInFlight,
                  peer_inbox, peer_sent, call_arg >>

NextEnvelope == EnvelopeCall

SpecEnvelope == InitEnvelope /\ [][NextEnvelope]_vars

\* ------------------------------------- a second connection on the same loop
\* Every conversation_ws coroutine runs on the one event-loop thread; only
\* what is handed to run_in_executor runs elsewhere.  The coroutine has gone
\* into the blocking calls of 116-131 (b64decode, from_file, export): there is
\* no await before 138, so it occupies the thread until Normalize is over.
NormalizeBegin ==
  /\ pc = "normalize"
  /\ pc' = "normalizing"
  /\ UNCHANGED << transport, inbox, inboxMid, arrivedMid, nsent, locals, sent,
                  tmpFiles, created, trace, failedSends, closedInFlight >>
  /\ UNCHANGED others

\* The event-loop thread is inside this session's synchronous code.
LoopBusy == pc = "normalizing"

\* The client of the second connection sends a ping.
PeerSend ==
  /\ Len(peer_inbox) < MaxInbox
  /\ Len(peer_inbox) + Len(peer_sent) < MaxMsgs
  /\ peer_inbox' = Append(peer_inbox, Ping)
  /\ UNCHANGED << transport, inbox, inboxMid, arrivedMid, nsent, pc, locals, sent,
                  tmpFiles, created, trace, failedSends, closedInFlight,
                  peer_sent, call_state, call_arg, call_result >>

\* The coroutine of the second connection is resumed by the event loop,
\* takes the ping and answers pong (94-103).
PeerRecvPing ==
  /\ ~LoopBusy
  /\ peer_inbox # <<>>
  /\ peer_inbox' = Tail(peer_inbox)
  /\ peer_sent' = Append(peer_sent, Pong)
  /\ UNCHANGED << transport, inbox, inboxMid, arrivedMid, nsent, pc, locals, sent,
                  tmpFiles, created, trace, failedSends, closedInFlight,
                  call_state, call_arg, call_result >>

\* ---------------------------------------------------------- specification
Next ==
  \/ \E m \in ClientMsgs : ClientSend(m)
  \/ ClientClose
  \/ RecvDisconnect
  \/ RecvBadJson
  \/ RecvNonObject
  \/ RecvPing
  \/ RecvOther
  \/ RecvAudioData
  \/ Normalize
  \/ TranscribeDone
  \/ AfterTranscript
  \/ GenerateDone
  \/ SynthesizeDone
  \/ EnvelopeDone

Spec == Init /\ [][Next]_vars

\* The session on a transport that stays open, where the event loop resumes
\* a coroutine that can go on and every call handed to the executor returns
\* or raises.  The client sends pings and audio_data messages with a payload.
LiveMsgs == { Ping, AudioData("ok", "none") }

HandlerStep ==
  \/ RecvPing
  \/ RecvAudioData
  \/ Normalize
  \/ TranscribeDone
  \/ AfterTranscript
  \/ GenerateDone
  \/ SynthesizeDone

NextLive ==
  \/ \E m \in LiveMsgs : ClientSend(m)
  \/ HandlerStep
  \/ EnvelopeDone

\* extract_amplitude_envelope returns or raises: the run does not stay at
\* the envelope stage for ever.  EnvelopeDone is enabled whenever
\* pc = "envelope" and leaves it, so this is WF_vars(EnvelopeDone).
EnvelopeReturns == []<>(pc # "envelope")

SpecLive == Init /\ [][NextLive]_vars /\ WF_vars(HandlerStep) /\ EnvelopeReturns

\* --------------------------------- the lazily created process-wide handles
\* stt._load, llm._get_ollama_client and tts._get_client are the same code:
\*   if _x is None: _x = Constructor(...)
\*   return _x
\* run by the executor's worker threads, one pipeline run per thread.  The
\* module-level state is, per handle, the global (0 is None, otherwise the
\* number of the instance) and how many instances have been constructed.
Workers == {"w1", "w2"}

\* The handles in the order a run reaches them.
HandleOrder == << "stt", "llm", "tts" >>

HandleNames == {HandleOrder[i] : i \in 1..Len(HandleOrder)}

InitLazy ==
  /\ SessionInit
  /\ call_state = [w \in Workers |-> [stage |-> 1, at |-> "check"]]
  /\ call_arg = [h \in HandleNames |-> [global |-> 0, built |-> 0, fresh |-> [w \in Workers |-> 0]]]
  /\ call_result = [w \in Workers |-> [h \in HandleNames |-> 0]]

SessionUnchanged ==
  UNCHANGED << transport, inbox, inboxMid, arrivedMid, nsent, pc, locals, sent,
               tmpFiles, created, trace, failedSends, closedInFlight,
               peer_inbox, peer_sent >>

\* `if _x is None`
LazyCheck(w) ==
  LET h == HandleOrder[call_state[w].stage]
  IN  /\ call_state[w].at = "check"
      /\ call_state' = [call_state EXCEPT ![w].at =
                          IF call_arg[h].global = 0 THEN "construct" ELSE "return"]
      /\ UNCHANGED << call_arg, call_result >>
      /\ SessionUnchanged

\* Constructor(...): a new instance is made (loading a model, opening a client).
LazyConstruct(w) ==
  LET h == HandleOrder[call_state[w].stage]
  IN  /\ call_state[w].at = "construct"
      /\ call_arg' = [call_arg EXCEPT ![h].built = @ + 1,
                                      ![h].fresh[w] = call_arg[h].built + 1]
      /\ call_state' = [call_state EXCEPT ![w].at = "store"]
      /\ UNCHANGED call_result
      /\ SessionUnchanged

\* `_x = ` the instance just constructed.
LazyStore(w) ==
  LET h == HandleOrder[call_state[w].stage]
  IN  /\ call_state[w].at = "store"
      /\ call_arg' = [call_arg EXCEPT ![h].global = call_arg[h].fresh[w]]
      /\ call_state' = [call_state EXCEPT ![w].at = "return"]
      /\ UNCHANGED call_result
      /\ SessionUnchanged

\* `return _x`: the run uses what the global holds now, and goes on to its
\* next stage.
LazyReturn(w) ==
  LET h == HandleOrder[call_state[w].stage]
  IN  /\ call_state[w].at = "return"
      /\ call_result' = [call_result EXCEPT ![w][h] = call_arg[h].global]
      /\ call_state' = [call_state EXCEPT ![w] =
                          IF call_state[w].stage < Len(HandleOrder)
                          THEN [stage |-> call_state[w].stage + 1, at |-> "check"]
                          ELSE [stage |-> call_state[w].stage, at |-> "done"]]
      /\ UNCHANGED call_arg
      /\ SessionUnchanged

NextLazy ==
  \E w \in Workers :
    LazyCheck(w) \/ LazyConstruct(w) \/ LazyStore(w) \/ LazyReturn(w)

SpecLazy == InitLazy /\ [][NextLazy]_vars

\* ------------------------------------------- servo.py: the tracking thread
\* start_tracking opens the serial port and the camera and starts a daemon
\* thread running _tracking_loop; stop_tracking clears _running, joins the
\* thread for at most one second, then releases everything.  The state is
\*   call_state   where the caller of start/stop_tracking and the thread are,
\*   call_arg     the module globals of servo.py and tracking.py: what
\*                _running and _thread hold, whether _serial, _cap and
\*                _landmarker are bound (None or the object), and whether the
\*                object behind each is still open,
\*   call_result  the thread's locals: h_dir, and the receivers it has already
\*                loaded for `_cap.read()` and `_serial.write(...)`.
\* The thread is one bytecode-level step per action where a global is read:
\* the test of a global and the later call through it are separate reads.
Directions == {"left", "right", "stationary", "none"}

InitServo ==
  /\ SessionInit
  /\ call_state = [main |-> "loaded", loop |-> "unstarted"]
  /\ call_arg = [running |-> FALSE, thread |-> FALSE,
                 serial |-> FALSE, cap |-> FALSE, landmarker |-> FALSE,
                 serial_open |-> FALSE, cap_open |-> FALSE,
                 landmarker_open |-> FALSE]
  /\ call_result = [h_dir |-> "none", cap_ref |-> FALSE, serial_ref |-> FALSE]

LoopAt(p) == call_state.loop = p

LoopGoto(p) == call_state' = [call_state EXCEPT !.loop = p]

MainAt(p) == call_state.main = p

MainGoto(p) == call_state' = [call_state EXCEPT !.main = p]

\* The thread has ended, by leaving the while loop or by an exception.
LoopEnded == call_state.loop \in {"done", "dead"}

\* start_tracking: connect, tracking.start, _running = True, thread started.
\* No thread exists yet, so it is one step.
start_tracking ==
  /\ MainAt("loaded")
  /\ call_arg' = [running |-> TRUE, thread |-> TRUE,
                  serial |-> TRUE, cap |-> TRUE, landmarker |-> TRUE,
                  serial_open |-> TRUE, cap_open |-> TRUE,
                  landmarker_open |-> TRUE]
  /\ call_state' = [main |-> "tracking", loop |-> "while"]
  /\ UNCHANGED call_result
  /\ SessionUnchanged

\* `while _running:`
LoopWhile ==
  /\ LoopAt("while")
  /\ LoopGoto(IF call_arg.running THEN "gmd_check" ELSE "done")
  /\ UNCHANGED << call_arg, call_result >>
  /\ SessionUnchanged

\* get_movement_direction: `if not _cap or not _landmarker: return None, None`
GmdCheck ==
  /\ LoopAt("gmd_check")
  /\ IF call_arg.cap /\ call_arg.landmarker
     THEN LoopGoto("load_cap") /\ UNCHANGED call_result
     ELSE LoopGoto("turn") /\ call_result' = [call_result EXCEPT !.h_dir = "none"]
  /\ UNCHANGED call_arg
  /\ SessionUnchanged

\* `_cap.read()`, the receiver: the global is read again; None has no read,
\* the AttributeError ends the thread.
LoadCap ==
  /\ LoopAt("load_cap")
  /\ IF call_arg.cap
     THEN LoopGoto("read") /\ call_result' = [call_result EXCEPT !.cap_ref = TRUE]
     ELSE LoopGoto("dead") /\ UNCHANGED call_result
  /\ UNCHANGED call_arg
  /\ SessionUnchanged

\* `ret, frame = _cap.read()`, the call on the capture loaded before: a
\* released capture gives ret False (`return None, None`), an open one a frame.
CapRead ==
  /\ LoopAt("read")
  /\ IF call_arg.cap_open
     THEN LoopGoto("detect") /\ call_result' = [call_result EXCEPT !.cap_ref = FALSE]
     ELSE LoopGoto("turn")
          /\ call_result' = [call_result EXCEPT !.cap_ref = FALSE, !.h_dir = "none"]
  /\ UNCHANGED call_arg
  /\ SessionUnchanged

\* `_detect(frame)` and the rest of get_movement_direction: _landmarker is
\* read again; None or a closed landmarker raises and ends the thread,
\* otherwise the direction is whatever the frame shows.
Detect(d) ==
  /\ LoopAt("detect")
  /\ IF call_arg.landmarker /\ call_arg.landmarker_open
     THEN LoopGoto("turn") /\ call_result' = [call_result EXCEPT !.h_dir = d]
     ELSE LoopGoto("dead") /\ UNCHANGED call_result
  /\ UNCHANGED call_arg
  /\ SessionUnchanged

\* `if h_dir == LEFT: turn_left() elif h_dir == RIGHT: turn_right()`, and in
\* either `if _serial:`.
TurnCheck ==
  /\ LoopAt("turn")
  /\ LoopGoto(IF call_result.h_dir \in {"left", "right"} /\ call_arg.serial
              THEN "load_serial" ELSE "sleep")
  /\ UNCHANGED << call_arg, call_result >>
  /\ SessionUnchanged

\* `_serial.write(...)`, the receiver: the global is read again.
LoadSerial ==
  /\ LoopAt("load_serial")
  /\ IF call_arg.serial
     THEN LoopGoto("write") /\ call_result' = [call_result EXCEPT !.serial_ref = TRUE]
     ELSE LoopGoto("dead") /\ UNCHANGED call_result
  /\ UNCHANGED call_arg
  /\ SessionUnchanged

\* `_serial.write(b'l')`, the call on the port loaded before: a closed port
\* raises and ends the thread.
SerialWrite ==
  /\ LoopAt("write")
  /\ LoopGoto(IF call_arg.serial_open THEN "sleep" ELSE "dead")
  /\ call_result' = [call_result EXCEPT !.serial_ref = FALSE]
  /\ UNCHANGED call_arg
  /\ SessionUnchanged

\* `time.sleep(0.1)`
LoopSleep ==
  /\ LoopAt("sleep")
  /\ LoopGoto("while")
  /\ UNCHANGED << call_arg, call_result >>
  /\ SessionUnchanged

\* stop_tracking: `_running = False`
StopClearRunning ==
  /\ MainAt("tracking")
  /\ MainGoto("join")
  /\ call_arg' = [call_arg EXCEPT !.running = FALSE]
  /\ UNCHANGED call_result
  /\ SessionUnchanged

\* `_thread.join(timeout=1)` has returned because the thread ended;
\* `_thread = None`.
JoinReturns ==
  /\ MainAt("join")
  /\ LoopEnded
  /\ MainGoto("cap_release")
  /\ call_arg' = [call_arg EXCEPT !.thread = FALSE]
  /\ UNCHANGED call_result
  /\ SessionUnchanged

\* `_thread.join(timeout=1)` has returned because the second is over; the
\* thread is where it was.  `_thread = None`.
JoinTimesOut ==
  /\ MainAt("join")
  /\ ~LoopEnded
  /\ MainGoto("cap_release")
  /\ call_arg' = [call_arg EXCEPT !.thread = FALSE]
  /\ UNCHANGED call_result
  /\ SessionUnchanged

\* tracking.stop: `_cap.release()`
CapRelease ==
  /\ MainAt("cap_release")
  /\ MainGoto("cap_none")
  /\ call_arg' = [call_arg EXCEPT !.cap_open = FALSE]
  /\ UNCHANGED call_result
  /\ SessionUnchanged

\* `_cap = None`
CapNone ==
  /\ MainAt("cap_none")
  /\ MainGoto("landmarker_close")
  /\ call_arg' = [call_arg EXCEPT !.cap = FALSE]
  /\ UNCHANGED call_result
  /\ SessionUnchanged

\* `_landmarker.close()`
LandmarkerClose ==
  /\ MainAt("landmarker_close")
  /\ MainGoto("landmarker_none")
  /\ call_arg' = [call_arg EXCEPT !.landmarker_open = FALSE]
  /\ UNCHANGED call_result
  /\ SessionUnchanged

\* `_landmarker = None`
LandmarkerNone ==
  /\ MainAt("landmarker_none")
  /\ MainGoto("serial_close")
  /\ call_arg' = [call_arg EXCEPT !.landmarker = FALSE]
  /\ UNCHANGED call_result
  /\ SessionUnchanged

\* disconnect: `_serial.close()`
SerialClose ==
  /\ MainAt("serial_close")
  /\ MainGoto("serial_none")
  /\ call_arg' = [call_arg EXCEPT !.serial_open = FALSE]
  /\ UNCHANGED call_result
  /\ SessionUnchanged

\* `_serial = None`, and stop_tracking returns.
SerialNone ==
  /\ MainAt("serial_none")
  /\ MainGoto("returned")
  /\ call_arg' = [call_arg EXCEPT !.serial = FALSE]
  /\ UNCHANGED call_result
  /\ SessionUnchanged

tracking_loop ==
  \/ LoopWhile
  \/ GmdCheck
  \/ LoadCap
  \/ CapRead
  \/ \E d \in Directions : Detect(d)
  \/ TurnCheck
  \/ LoadSerial
  \/ SerialWrite
  \/ LoopSleep

stop_tracking ==
  \/ StopClearRunning
  \/ JoinReturns
  \/ JoinTimesOut
  \/ CapRelease
  \/ CapNone
  \/ LandmarkerClose
  \/ LandmarkerNone
  \/ SerialClose
  \/ SerialNone

NextServo == start_tracking \/ tracking_loop \/ stop_tracking

SpecServo == InitServo /\ [][NextServo]_vars

\* The session together with a second connection served by the same loop.
NextLoop ==
  \/ Next
  \/ NormalizeBegin
  \/ PeerSend
  \/ PeerRecvPing

SpecLoop == Init /\ [][NextLoop]_vars

\* -------------------------------------------------------------- properties
\* Helpers over the run's trace and the outbound messages.
HasEv(e) == \E i \in 1..Len(trace) : trace[i] = e

IsSend(e)  == e.ev = "send"
IsStage(e) == e.ev \in {"call", "ret", "raise"} /\ e.stage # "normalize"

\* The messages the current run has sent, in order.
RunSends ==
  LET evs == SelectSeq(trace, IsSend) IN [i \in 1..Len(evs) |-> evs[i].msg]

\* The collaborator events of the current run, in order.
StageEvents == SelectSeq(trace, IsStage)

IsPrefix(a, b) == Len(a) <= Len(b) /\ a = SubSeq(b, 1, Len(a))

CountType(msgs, t) == Cardinality({i \in 1..Len(msgs) : msgs[i].type = t})

\* C1: after any pipeline run, whatever its exit path, the temporary WAV
\* file of the run no longer exists: whenever the session is back at
\* receive or has terminated, no temporary file is left.
C1_NoTempArtifactAfterRun ==
  pc \in {"recv", "closed"} => tmpFiles = {}

\* C2: a ping that arrives while the session's run is in flight is answered
\* without waiting for the run: it is never still unanswered in the queue
\* when the run has ended and the session is back at receive.
C2_PingAnsweredBeforeRunEnds ==
  ~ ( /\ pc = "recv"
      /\ transport = "open"
      /\ \E i \in 1..Len(inbox) :
           /\ inbox[i].json = "object"
           /\ inbox[i].type = "ping"
           /\ inboxMid[i] )

\* C3: every ping the session takes yields exactly one pong and no other
\* outbound message (nothing on a closed transport), invokes no collaborator
\* and changes no session state, in whatever state the session is.
C3_PingYieldsOnlyPong ==
  [][ (inbox # <<>> /\ Head(inbox) = Ping /\ inbox' = Tail(inbox))
      => /\ transport = "open" => (sent' = Append(sent, Pong) /\ pc' = pc)
         /\ transport = "closed" => sent' = sent
         /\ UNCHANGED << voice_id, tmp_path, user_text, response_text, emotion,
                         audio, tmpFiles, created, trace >> ]_vars

\* A pong was sent after a pipeline run had sent its messages.
C3_Witness ==
  /\ Len(sent) >= 3
  /\ sent[1].type = "processing"
  /\ sent[Len(sent)].type = "pong"

ShortCircuitSends ==
  << Processing, TranscriptMsg(<<>>), ErrorMsg("could not understand audio") >>

\* C4: when transcription returns an empty or whitespace-only text, the run
\* sends, after `processing`, exactly transcript("") and then
\* error("could not understand audio"), and no stage after transcription is
\* invoked.
C4_EmptyTranscriptShortCircuit ==
  (HasEv(RetEv("transcribe")) /\ Strip(user_text) = <<>>)
    => /\ StageEvents = << CallEv("transcribe"), RetEv("transcribe") >>
       /\ IsPrefix(RunSends, ShortCircuitSends)
       /\ pc = "recv" => RunSends = ShortCircuitSends

\* A run with an empty transcript has ended and the session is at receive.
C4_Witness ==
  /\ pc = "recv"
  /\ HasEv(RetEv("transcribe"))
  /\ Strip(user_text) = <<>>
  /\ Len(RunSends) = 3

FullOrder ==
  << CallEv("transcribe"), RetEv("transcribe"), CallEv("generate"),
     RetEv("generate"), CallEv("parse"), RetEv("parse"), CallEv("synthesize"),
     RetEv("synthesize"), CallEv("envelope"), RetEv("envelope") >>

\* C5: within a run the stages are invoked in the order transcribe,
\* generate, parse emotion, synthesize, envelope, each only after the one
\* before it returned; nothing is invoked after a stage raised or after the
\* empty-transcript short-circuit.
C5_StagesInStrictOrder ==
  LET ev     == StageEvents
      n      == Len(ev)
      raised == n > 0 /\ ev[n].ev = "raise"
      body   == IF raised THEN SubSeq(ev, 1, n - 1) ELSE ev
  IN  /\ IsPrefix(body, FullOrder)
      /\ raised => /\ Len(body) % 2 = 1
                   /\ ev[n].stage = body[Len(body)].stage
                   /\ ~InFlight
      /\ (HasEv(RetEv("transcribe")) /\ Strip(user_text) = <<>>) => n <= 2
      /\ \A st \in {"transcribe", "generate", "synthesize", "envelope"} :
           pc = st <=> (n > 0 /\ ev[n] = CallEv(st))

\* All five stages of a run have run.
C5_Witness ==
  /\ HasEv(RetEv("envelope"))
  /\ Len(StageEvents) = 10

StageNames == {"transcribe", "generate", "synthesize", "envelope"}

\* The session takes the next frame of the inbox.
ReceiveNext ==
  RecvBadJson \/ RecvNonObject \/ RecvPing \/ RecvOther \/ RecvAudioData

\* C6: when a stage of a run raises, the run emits exactly one error message
\* carrying the failure text and no audio message, the loop does not
\* terminate (unless the transport is closed) and the session takes the next
\* inbound message.
C6_StageFailureGivesOneError ==
  \A st \in StageNames :
    HasEv(RaiseEv(st))
      => /\ CountType(RunSends, "audio") = 0
         /\ CountType(RunSends, "error") <= 1
         /\ transport = "open" => pc = "recv"
         /\ pc = "recv"
              => /\ CountType(RunSends, "error") = 1
                 /\ RunSends[Len(RunSends)] = ErrorMsg(FailureText(st))
                 /\ inbox # <<>> => ENABLED ReceiveNext

\* After a run whose synthesize stage raised, the next frame (a ping) was
\* answered.
C6_Witness ==
  /\ HasEv(RaiseEv("synthesize"))
  /\ sent # <<>>
  /\ sent[Len(sent)].type = "pong"

\* C7: a run whose stages all succeed sends exactly processing, transcript
\* and audio, once each; the transcript goes out after transcribe returned
\* and before generate is invoked, the audio only after the envelope stage
\* returned.
C7_SuccessfulRunSequence ==
  /\ HasEv(CallEv("generate"))
       => /\ user_text # <<>>
          /\ IsPrefix(<< SendEv(Processing), CallEv("transcribe"),
                         RetEv("transcribe"), SendEv(TranscriptMsg(user_text)),
                         CallEv("generate") >>, trace)
  /\ CountType(RunSends, "audio") > 0 => HasEv(RetEv("envelope"))
  /\ (HasEv(RetEv("envelope")) /\ pc = "recv")
       => /\ Len(trace) = 13
          /\ IsPrefix(FullOrder, SubSeq(trace, 2, 3) \o SubSeq(trace, 5, 12))
          /\ trace[13] =
               SendEv(AudioMsg(audio, emotion,
                  extract_amplitude_envelope(audio, DefaultBucketMs).amplitudes))
          /\ RunSends = << Processing, TranscriptMsg(user_text), trace[13].msg >>

\* A run has delivered its audio message.
C7_Witness ==
  /\ pc = "recv"
  /\ HasEv(RetEv("envelope"))
  /\ CountType(RunSends, "audio") = 1

Terminal(m) == m.type \in {"audio", "error"}

\* Between two `processing` messages there is a terminal message.
RunsSeparated ==
  \A i, j \in 1..Len(sent) :
    (i < j /\ sent[i].type = "processing" /\ sent[j].type = "processing")
      => \E k \in (i + 1)..(j - 1) : Terminal(sent[k])

\* C8: at most one run is active per session: a frame that arrives while a
\* run is in flight stays queued, in order, until the run has emitted its
\* terminal message, and only then can start a run.
C8_OneRunAtATime ==
  /\ []RunsSeparated
  /\ [][InFlight => IsPrefix(inbox, inbox')]_vars

\* A second run was started by a frame that arrived during the first run.
C8_Witness ==
  /\ pc = "normalize"
  /\ arrivedMid
  /\ CountType(sent, "processing") = 2

\* C9: after the transport closed while a run was in flight, the session
\* abandons the result and makes no attempt to send on the closed channel.
C9_NoSendOnClosedChannel ==
  closedInFlight => failedSends = 0

\* C10: the loop terminates only on a transport-level failure, a receive
\* that raises the disconnect or a send that fails; no message content and no
\* stage failure ends it while the transport is open.
C10_OnlyTransportFailureTerminates ==
  pc = "closed" => /\ transport = "closed"
                   /\ failedSends > 0 \/ inbox = <<>>

\* A frame that is not an object and a failed stage both lie behind, and the
\* session is at receive on the open transport.
C10_Witness ==
  /\ transport = "open"
  /\ pc = "recv"
  /\ \E i \in 1..Len(sent) :
       sent[i].type = "error" /\ sent[i].message = "AttributeError"
  /\ \E st \in StageNames : HasEv(RaiseEv(st))

\* C11: an audio_data message whose audio field is missing or empty yields
\* exactly one error("no audio data") (nothing on a closed transport): no
\* `processing`, no temporary file, no collaborator call, and the session
\* stays at receive with its run state unchanged.
C11_NoAudioGivesOneError ==
  [][ ( /\ inbox # <<>>
        /\ Head(inbox).json = "object"
        /\ Head(inbox).type = "audio_data"
        /\ Head(inbox).audio \in {"none", "empty"}
        /\ inbox' = Tail(inbox) )
      => /\ transport = "open"
              => (sent' = Append(sent, ErrorMsg("no audio data")) /\ pc' = "recv")
         /\ transport = "closed" => sent' = sent
         /\ UNCHANGED << voice_id, tmp_path, user_text, response_text, emotion,
                         audio, tmpFiles, created, trace >> ]_vars

\* An audio_data message with an empty audio field was answered after an
\* earlier run.
C11_Witness ==
  /\ pc = "recv"
  /\ data = AudioData("empty", "none")
  /\ Len(sent) >= 3
  /\ sent[1] = Processing
  /\ sent[Len(sent)] = ErrorMsg("no audio data")

\* C12: when the normalizer cannot decode the payload of an audio_data
\* message, the failure is surfaced as exactly one error message (nothing on
\* a closed transport), no collaborator stage is invoked and no temporary
\* file is made, and the session stays at receive and takes the next inbound
\* message.
C12_DecodeFailureGivesOneError ==
  /\ [][ (pc = "normalize" /\ data.audio = "undecodable" /\ pc' # pc)
         => /\ transport = "open"
                 => /\ sent' = Append(sent, ErrorMsg("CouldntDecodeError"))
                    /\ pc' = "recv"
            /\ transport = "closed" => (sent' = sent /\ pc' = "closed")
            /\ StageEvents' = <<>>
            /\ UNCHANGED << tmpFiles, created, inbox >> ]_vars
  /\ [] ( ( /\ HasEv(RaiseEv("normalize"))
            /\ pc = "recv"
            /\ inbox # <<>> )
          => ENABLED ReceiveNext )

\* After a payload that could not be decoded, the next frame (a ping) was
\* answered.
C12_Witness ==
  /\ pc = "recv"
  /\ Len(sent) = 3
  /\ sent[1] = Processing
  /\ sent[2] = ErrorMsg("CouldntDecodeError")
  /\ sent[3] = Pong
  /\ StageEvents = <<>>

\* C13: the emotion value carried by every audio message is one of the six
\* lower-case words happy, sad, angry, surprised, concerned, neutral,
\* whatever the letter case of the marker in the reply.
C13_EmotionIsLowerCase ==
  \A i \in 1..Len(sent) :
    sent[i].type = "audio" => sent[i].emotion \in EmotionWords

\* Does t begin, in any letter case, with a word of the vocabulary?
StartsWithWord(t) ==
  \E w \in EmotionWords :
    Len(t) >= Len(w) /\ LowerText(SubSeq(t, 1, Len(w))) = w

\* No marker at position 0: neither a word nor "[" and a word.
NoMarkerAtStart(t) ==
  /\ ~StartsWithWord(t)
  /\ ~(t # <<>> /\ t[1] = "[" /\ StartsWithWord(Tail(t)))

\* C14: for every word e of the vocabulary, parsing "[e] " followed by a
\* rest yields emotion e and that rest as the reply text (without the blanks
\* it may begin with, which belong to the separator); parsing a text with no
\* marker at position 0 yields neutral and the text unchanged.
C14_ParseMarkerAndRest ==
  call_state = "done"
    => /\ \A e \in EmotionWords :
            LET head == <<"[">> \o e \o <<"]", " ">>
                rest == SubSeq(call_arg, Len(head) + 1, Len(call_arg))
            IN  (Len(call_arg) >= Len(head)
                 /\ SubSeq(call_arg, 1, Len(head)) = head)
                  => call_result = [emotion |-> e, text |-> LStrip(rest)]
       /\ NoMarkerAtStart(call_arg)
            => call_result = [emotion |-> Neutral, text |-> call_arg]

\* "[surprised] ok" was parsed into surprised and "ok".
C14_Witness ==
  /\ call_state = "done"
  /\ call_arg = <<"[">> \o <<"s","u","r","p","r","i","s","e","d">> \o <<"]", " ", "o", "k">>
  /\ call_result = [emotion |-> <<"s","u","r","p","r","i","s","e","d">>,
                    text |-> <<"o","k">>]

\* The clip of the call and its samples after channel reduction (the first
\* channel of a stereo clip).
ArgClip == call_arg.clip

ReducedSamples ==
  IF ArgClip.channels = 2
  THEN [i \in 1..(Len(ArgClip.samples) \div 2) |-> ArgClip.samples[2 * i - 1]]
  ELSE ArgClip.samples

\* b is floor(sampleRate * bucketMs / 1000).
IsBucketSampleCount(b) ==
  /\ b * 1000 <= ArgClip.frame_rate * call_arg.bucket_ms
  /\ ArgClip.frame_rate * call_arg.bucket_ms < (b + 1) * 1000

\* n is ceil(total / b).
IsCeilOf(n, total, b) == n * b >= total /\ (n - 1) * b < total

\* C15: with bucketSampleCount = floor(sampleRate * bucketMs / 1000) > 0 and
\* totalSamples counted after channel reduction, the extractor returns
\* exactly ceil(totalSamples / bucketSampleCount) buckets; every bucket but
\* possibly the last covers bucketSampleCount samples, the last covers the
\* remainder; zero samples give the empty sequence.
C15_BucketCount ==
  call_state = "done"
    => \A b \in 1..MaxSamples :
         IsBucketSampleCount(b)
           => LET total == Len(ReducedSamples)
                  n     == Len(call_result.amplitudes)
                  cs    == Chunks(ReducedSamples, b)
              IN  /\ call_result.ok
                  /\ IsCeilOf(n, total, b)
                  /\ total = 0 => call_result.amplitudes = <<>>
                  /\ Len(cs) = n
                  /\ \A k \in 1..n :
                       IF k < n THEN Len(cs[k]) = b
                       ELSE Len(cs[k]) = total - (n - 1) * b

\* A stereo clip of three frames was cut into two buckets, the last one short.
C15_Witness ==
  /\ call_state = "done"
  /\ ArgClip.channels = 2
  /\ Len(ArgClip.samples) = 6
  /\ IsBucketSampleCount(2)
  /\ Len(call_result.amplitudes) = 2

\* Amplitudes are fractions num/den of the squared value: 0 is num = 0 and 1
\* is num = den.
AmpInUnit(a) == a.den > 0 /\ 0 <= a.num /\ a.num <= a.den
AmpIsOne(a)  == a.den > 0 /\ a.num = a.den
AmpIsZero(a) == a.den > 0 /\ a.num = 0

LastSentIs(m) == sent # <<>> /\ sent[Len(sent)] = m

\* C17: a stop_listening message received with no buffered capture frames
\* (the session never buffers any) yields exactly one
\* error("no audio captured"): the step that takes the frame on an open
\* transport appends that error to the delivered messages, and invokes no
\* collaborator.
C17_EmptyCaptureGivesError ==
  [][ (inbox # <<>> /\ Head(inbox) = StopListening /\ inbox' = Tail(inbox))
      => /\ transport = "open" => sent' = Append(sent, ErrorMsg("no audio captured"))
         /\ trace' = trace ]_vars

\* C18: a start_listening message received while the session is idle makes
\* it emit a `listening` message: once the session has handled the frame on
\* an open transport, `listening` is the last message it sent.
C18_StartListeningEmitsListening ==
  (pc = "recv" /\ transport = "open" /\ data = Other)
    => LastSentIs([type |-> "listening"])

\* The message types of the protocol.
ProtocolTypes == {"ping", "audio_data", "start_listening", "stop_listening"}

\* C19: a well-formed message whose type is none of the protocol's is
\* ignored: the step that takes it delivers no message (no error), invokes
\* no collaborator, makes no temporary file and leaves the session at
\* receive with its run state unchanged.
C19_UnknownTypeIgnored ==
  [][ ( /\ inbox # <<>>
        /\ Head(inbox).json = "object"
        /\ Head(inbox).type \notin ProtocolTypes
        /\ inbox' = Tail(inbox) )
      => UNCHANGED << sent, failedSends, pc, trace, tmpFiles, created, voice_id,
                      tmp_path, user_text, response_text, emotion, audio >> ]_vars

\* A frame of unknown type was taken after a run had ended, and nothing was
\* sent for it.
C19_Witness ==
  /\ pc = "recv"
  /\ transport = "open"
  /\ data = Unknown
  /\ Len(sent) >= 2
  /\ sent[1] = Processing
  /\ Terminal(sent[Len(sent)])

\* C20: a run never starves another connection: at every point between the
\* session's `processing` and its terminal message, audio normalization
\* included, a ping waiting on a different connection can be answered with
\* pong before the run makes further progress.
C20_PeerPingAnswerable ==
  (InFlight /\ peer_inbox # <<>> /\ Head(peer_inbox) = Ping)
    => ENABLED PeerRecvPing

\* The frame is an audio_data message with a payload.
Accepted(m) == m.json = "object" /\ m.type = "audio_data" /\ ~NoAudio(m)

\* C21: when every stage call returns or raises and the transport stays
\* open, a run in flight leads to a terminal message (audio or error) with
\* the session back at receive, and an audio_data message with a payload
\* that is next in the queue of the receiving session leads to `processing`
\* and the start of its run.
C21_RunEndsAndNextIsAccepted ==
  /\ InFlight ~> (pc = "recv" /\ sent # <<>> /\ Terminal(sent[Len(sent)]))
  /\ (pc = "recv" /\ inbox # <<>> /\ Accepted(Head(inbox)))
       ~> (pc = "normalize" /\ sent # <<>> /\ sent[Len(sent)] = Processing)

\* A second submission was accepted after the first run had ended with its
\* terminal message.
C21_Witness ==
  /\ transport = "open"
  /\ pc = "normalize"
  /\ Len(sent) >= 3
  /\ sent[1] = Processing
  /\ Terminal(sent[Len(sent) - 1])
  /\ sent[Len(sent)] = Processing

\* How often the current run has submitted stage st.
Calls(st) == Cardinality({i \in 1..Len(trace) : trace[i] = CallEv(st)})

\* C22: no collaborator call is retried: within one run each of transcribe,
\* generate, synthesize and envelope is invoked at most once, and a stage
\* that raised is the last stage event of the run.
C22_NoStageRetried ==
  \A st \in StageNames :
    /\ Calls(st) <= 1
    /\ HasEv(RaiseEv(st))
         => /\ StageEvents # <<>>
            /\ StageEvents[Len(StageEvents)] = RaiseEv(st)
            /\ pc \in {"recv", "closed"}

\* A run whose generate stage raised has ended; transcribe and generate were
\* each invoked once and nothing after them.
C22_Witness ==
  /\ pc = "recv"
  /\ HasEv(RaiseEv("generate"))
  /\ Calls("transcribe") = 1
  /\ Calls("generate") = 1
  /\ Calls("synthesize") = 0

\* The vocabulary word t begins with, in any letter case (t begins with one).
WordAtStart(t) ==
  CHOOSE w \in EmotionWords :
    Len(t) >= Len(w) /\ LowerText(SubSeq(t, 1, Len(w))) = w

\* C23: brackets around the marker are consumed only as a pair: a reply
\* that starts with "[" and a marker without the closing "]" is no match and
\* yields neutral and the text unchanged, and a bare marker followed by "]"
\* leaves the "]" at the head of the reply text.
C23_BracketsOnlyAsPair ==
  call_state = "done"
    => /\ ( /\ call_arg # <<>>
            /\ call_arg[1] = "["
            /\ StartsWithWord(Tail(call_arg))
            /\ LET n == Len(WordAtStart(Tail(call_arg))) + 1
               IN  ~(Len(call_arg) > n /\ call_arg[n + 1] = "]") )
           => call_result = [emotion |-> Neutral, text |-> call_arg]
       /\ ( /\ StartsWithWord(call_arg)
            /\ LET n == Len(WordAtStart(call_arg))
               IN  Len(call_arg) > n /\ call_arg[n + 1] = "]" )
           => (call_result.text # <<>> /\ call_result.text[1] = "]")

\* t begins with the text l.
BeginsWith(t, l) == Len(t) >= Len(l) /\ SubSeq(t, 1, Len(l)) = l

\* What is left of t, which begins with a marker, once that marker, its
\* closing bracket if any, and the blanks after it are taken off.
AfterFirstMarker(t) ==
  LET p0 == IF t[1] = "[" THEN 1 ELSE 0
      p1 == p0 + Len(WordAtStart(SubSeq(t, p0 + 1, Len(t))))
      p2 == IF Len(t) > p1 /\ t[p1 + 1] = "]" THEN p1 + 1 ELSE p1
  IN  LStrip(SubSeq(t, p2 + 1, Len(t)))

\* C24: the match is anchored at position 0 and takes off the first marker
\* only: a reply whose marker comes after other characters (a blank
\* included) yields neutral and the text unchanged, and of a reply that
\* begins with a marker exactly that marker is removed, so a second marker
\* stays in the reply text.
C24_AnchoredFirstMarkerOnly ==
  call_state = "done"
    => /\ (\E l \in Leads : BeginsWith(call_arg, l))
            => call_result = [emotion |-> Neutral, text |-> call_arg]
       /\ ~NoMarkerAtStart(call_arg)
            => call_result.text = AfterFirstMarker(call_arg)

\* "[sad] [sad] ok" was parsed and "[sad] ok" is the reply text.
C24_Witness ==
  /\ call_state = "done"
  /\ call_arg = <<"[","s","a","d","]"," ","[","s","a","d","]"," ","o","k">>
  /\ call_result.text = <<"[","s","a","d","]"," ","o","k">>

\* The error messages of a payload that fails base64 or audio decoding.
DecodeErrors == { ErrorMsg("binascii.Error"), ErrorMsg("CouldntDecodeError") }

\* C25: `processing` is sent only once the payload has been decoded and
\* normalized: the error of a payload that fails base64 or audio decoding
\* does not come right after a `processing` message, which would be the one
\* of the same submission.
C25_NoProcessingBeforeDecodeError ==
  \A i \in 2..Len(sent) :
    sent[i] \in DecodeErrors => sent[i - 1] # Processing

\* The index of the first `processing` after position i, or Len(sent) + 1.
NextProcessing(i) ==
  LET later == {j \in (i + 1)..Len(sent) : sent[j] = Processing}
  IN  IF later = {} THEN Len(sent) + 1
      ELSE CHOOSE j \in later : \A k \in later : j <= k

\* The terminal messages between position i and the next `processing`.
TerminalsAfter(i) ==
  {k \in (i + 1)..(NextProcessing(i) - 1) : Terminal(sent[k])}

\* C26 as stated: between two consecutive `processing` messages, and after
\* the last one, there is exactly one terminal message (at most one while
\* the run is still in flight), audio or error, never both, never two errors.
C26_OneTerminalPerProcessing ==
  \A i \in 1..Len(sent) :
    sent[i] = Processing
      => /\ Cardinality(TerminalsAfter(i)) <= 1
         /\ (NextProcessing(i) <= Len(sent) \/ (pc = "recv" /\ transport = "open"))
              => Cardinality(TerminalsAfter(i)) = 1

\* What the session sends in answer to a frame that starts no run.
FrameAnswers == { Pong, ErrorMsg("no audio data"), ErrorMsg("AttributeError") }

\* C26, amended: the messages of a run are its `processing`, transcripts and
\* the first terminal message after them, in one block; that block holds
\* exactly one terminal message once the run is over (at most one before),
\* and what follows it up to the next `processing` answers frames that start
\* no run (pong, error for a missing payload or a non-object frame), so the
\* messages of the k-th run all precede those of the (k+1)-th.
C26_OneTerminalPerRun ==
  \A i \in 1..Len(sent) :
    sent[i] = Processing
      => LET n  == NextProcessing(i)
             ts == TerminalsAfter(i)
             f  == IF ts = {} THEN n ELSE CHOOSE k \in ts : \A j \in ts : k <= j
         IN  /\ \A k \in (i + 1)..(f - 1) : sent[k].type = "transcript"
             /\ \A k \in (f + 1)..(n - 1) : sent[k] \in FrameAnswers
             /\ (n <= Len(sent) \/ (pc = "recv" /\ transport = "open")) => ts # {}
             /\ CountType(RunSends, "audio") + CountType(RunSends, "error") <= 1

\* A run ended with its error, and the next frame, an audio_data without
\* payload, was answered with an error of its own.
C26_Witness ==
  /\ pc = "recv"
  /\ transport = "open"
  /\ Len(sent) = 4
  /\ sent[1] = Processing
  /\ sent[2].type = "transcript"
  /\ sent[3] = ErrorMsg("llm failed")
  /\ sent[4] = ErrorMsg("no audio data")

\* C27: each lazily created handle is constructed at most once in the
\* process, and every run that has obtained it uses the same instance.
C27_HandlesConstructedOnce ==
  \A h \in HandleNames :
    /\ call_arg[h].built <= 1
    /\ \A v, w \in Workers :
         (call_result[v][h] # 0 /\ call_result[w][h] # 0)
           => call_result[v][h] = call_result[w][h]

\* C28: synthesize is called with the voiceId of the audio_data message that
\* started the current run when it is present and not empty, and with the
\* configured default voice otherwise, whatever voice earlier runs of the
\* session used.
C28_VoiceOfCurrentMessage ==
  pc = "envelope"
    => audio.voice = IF data.voiceId \in {"none", "empty"} THEN DefaultVoice
                     ELSE data.voiceId

\* The second run of the session, started by a message without voiceId, was
\* synthesized in the default voice.
C28_Witness ==
  /\ pc = "envelope"
  /\ CountType(sent, "processing") = 2
  /\ data.voiceId = "none"
  /\ audio.voice = DefaultVoice

\* C29: once stop_tracking has returned, the tracking thread neither reads
\* from the camera nor writes to the serial port: no step of the thread taken
\* after the return is the call `_cap.read()` or the call `_serial.write(...)`.
C29_NoUseAfterStop ==
  [][ MainAt("returned") => ~(CapRead \/ SerialWrite) ]_vars

====
